---- MODULE Spec2Model ----
(***************************************************************************)
(* A model of aahframework.org/vfs: the Mount (mount.go) over its node     *)
(* tree, the physical fallback, and the Binary compiler (binary.go).       *)
(*                                                                         *)
(* Strings are sequences of one-character strings, so that the path        *)
(* functions of the Go standard library (path.Clean, path.Dir, path.Base,  *)
(* strings.TrimPrefix, filepath.Join) are computed as the library computes *)
(* them.                                                                   *)
(***************************************************************************)
EXTENDS Integers, Sequences, FiniteSets, TLC

\* ------------------------------------------------------------------------
\* Bounds
\* ------------------------------------------------------------------------

\* Largest number of nodes on the heap of one Mount, the root included.
MaxNodes == 3

\* ------------------------------------------------------------------------
\* Strings and the path functions of the Go standard library
\* ------------------------------------------------------------------------

Slash == <<"/">>

Dot == <<".">>

DotDot == <<".", ".">>

\* Rank of a character in byte order, for the characters the model uses.
CharRank(c) ==
    CASE c = "." -> 46
      [] c = "/" -> 47
      [] c = "a" -> 97
      [] c = "b" -> 98
      [] c = "m" -> 109
      [] c = "p" -> 112
      [] c = "s" -> 115
      [] c = "t" -> 116
      [] c = "x" -> 120
      [] c = "z" -> 122
      [] OTHER   -> 0

RECURSIVE StrLess(_, _)
\* s < t for Go strings (byte-wise lexicographic order).
StrLess(s, t) ==
    IF t = <<>> THEN FALSE
    ELSE IF s = <<>> THEN TRUE
    ELSE IF Head(s) = Head(t) THEN StrLess(Tail(s), Tail(t))
    ELSE CharRank(Head(s)) < CharRank(Head(t))

\* strings.HasPrefix
HasPrefix(s, pre) ==
    /\ Len(pre) <= Len(s)
    /\ SubSeq(s, 1, Len(pre)) = pre

\* strings.TrimPrefix: s without the leading pre, or s itself.
TrimPrefix(s, pre) ==
    IF HasPrefix(s, pre) THEN SubSeq(s, Len(pre) + 1, Len(s)) ELSE s

RECURSIVE SplitAcc(_, _, _)
SplitAcc(s, cur, acc) ==
    IF s = <<>> THEN Append(acc, cur)
    ELSE IF Head(s) = "/" THEN SplitAcc(Tail(s), <<>>, Append(acc, cur))
    ELSE SplitAcc(Tail(s), Append(cur, Head(s)), acc)

\* strings.Split(s, "/"): the segments between slashes, empty ones included.
Split(s) == SplitAcc(s, <<>>, <<>>)

RECURSIVE JoinSegs(_)
\* strings.Join(segs, "/")
JoinSegs(segs) ==
    IF segs = <<>> THEN <<>>
    ELSE IF Len(segs) = 1 THEN segs[1]
    ELSE segs[1] \o Slash \o JoinSegs(Tail(segs))

RECURSIVE CleanSegs(_, _, _)
\* The element loop of path.Clean over the segments of the path.
CleanSegs(segs, stack, rooted) ==
    IF segs = <<>> THEN stack
    ELSE LET sg == Head(segs)
             rest == Tail(segs)
         IN IF sg = <<>> \/ sg = Dot THEN CleanSegs(rest, stack, rooted)
            ELSE IF sg = DotDot
                 THEN IF stack # <<>> /\ stack[Len(stack)] # DotDot
                      THEN CleanSegs(rest, SubSeq(stack, 1, Len(stack) - 1), rooted)
                      ELSE IF rooted THEN CleanSegs(rest, stack, rooted)
                      ELSE CleanSegs(rest, Append(stack, sg), rooted)
                 ELSE CleanSegs(rest, Append(stack, sg), rooted)

\* path.Clean (and filepath.Clean on a slash-separated platform).
Clean(p) ==
    IF p = <<>> THEN Dot
    ELSE LET rooted == Head(p) = "/"
             body == JoinSegs(CleanSegs(Split(p), <<>>, rooted))
             r == IF rooted THEN Slash \o body ELSE body
         IN IF r = <<>> THEN Dot ELSE r

RECURSIVE LastSlash(_)
\* strings.LastIndex(p, "/") + 1: the 1-based position of the last slash, 0 if none.
LastSlash(p) ==
    IF p = <<>> THEN 0
    ELSE IF p[Len(p)] = "/" THEN Len(p)
    ELSE LastSlash(SubSeq(p, 1, Len(p) - 1))

\* path.Dir: all but the last element, cleaned.
Dir(p) == Clean(SubSeq(p, 1, LastSlash(p)))

RECURSIVE StripTrailingSlashes(_)
StripTrailingSlashes(p) ==
    IF p # <<>> /\ p[Len(p)] = "/"
    THEN StripTrailingSlashes(SubSeq(p, 1, Len(p) - 1))
    ELSE p

\* path.Base (and filepath.Base): the last element of the path.
Base(p) ==
    IF p = <<>> THEN Dot
    ELSE LET q == StripTrailingSlashes(p)
             r == SubSeq(q, LastSlash(q) + 1, Len(q))
         IN IF r = <<>> THEN Slash ELSE r

\* filepath.Join(a, b): the non-empty elements joined by a slash, cleaned.
Join(a, b) ==
    IF a = <<>> /\ b = <<>> THEN <<>>
    ELSE IF a = <<>> THEN Clean(b)
    ELSE IF b = <<>> THEN Clean(a)
    ELSE Clean(a \o Slash \o b)

\* ------------------------------------------------------------------------
\* Errors and values
\* ------------------------------------------------------------------------

\* A Go error value: the operation of the *os.PathError (or "") and its cause.
Err(op, code) == [op |-> op, code |-> code]

\* The nil error.
NoErr == Err("", "nil")

\* os.ErrInvalid
ErrInvalid == Err("", "EINVAL")

\* os.ErrNotExist
ErrNotExist == Err("", "ENOENT")

\* A run-time panic (nil pointer dereference, slice bounds out of range).
Panic == Err("", "panic")

\* os.IsNotExist
IsNotExist(e) == e.code = "ENOENT"

\* No value: a nil slice, a nil os.FileInfo, a nil *file.
NoVal == [src |-> "none"]

\* The result pair (value, error) of an operation.
Res(val, err) == [val |-> val, err |-> err]

\* ------------------------------------------------------------------------
\* State
\* ------------------------------------------------------------------------

VARIABLES
    vroot,   \* Mount.vroot
    proot,   \* Mount.proot
    tree,    \* Mount.tree: the id of the root node, 0 for a nil pointer
    nodes,   \* the heap of nodes: nodes[id] is the node with that id
    phys,    \* the physical filesystem: path -> [dir, data]
    added,   \* history: the (path, data) of every AddFile call that returned nil
    last,    \* the last call made on the Mount and what it returned
    bin,     \* the arguments of the Binary call and the error it returned
    out,     \* the statements of the source Binary generated, in order
    pc,      \* 0 before Binary ran, then the index of the next statement to execute
    serving, \* population is complete and the Mount serves its readers
    rd       \* the call each reader is in: its stage, arguments, locals and result

vars == <<vroot, proot, tree, nodes, phys, added, last, bin, out, pc, serving, rd>>

\* ------------------------------------------------------------------------
\* The node tree (node.go)
\* ------------------------------------------------------------------------

\* A map with no keys.
EmptyMap == [k \in {} |-> 0]

\* newNode(name, fi): a node with no payload and no children.
newNode(name, fi) ==
    [Path |-> name, Dir |-> fi.dir, DataSize |-> fi.size, data |-> <<>>,
     childInfos |-> <<>>, childs |-> EmptyMap]

\* node.Name(): the last element of the node's path.
Name(n) == Base(n.Path)

\* The os.FileInfo view of a node of the tree.
nodeInfo(ns, id) ==
    [src |-> "tree", name |-> Name(ns[id]), dir |-> ns[id].Dir,
     size |-> ns[id].DataSize]

RECURSIVE descend(_, _, _)
\* The descent of findNode through the children maps, a segment at a time.
descend(ns, t, segs) ==
    IF segs = <<>> THEN [node |-> t, err |-> NoErr]
    ELSE IF Head(segs) \in DOMAIN ns[t].childs
         THEN descend(ns, ns[t].childs[Head(segs)], Tail(segs))
         ELSE [node |-> 0, err |-> ErrNotExist]

\* node.findNode(name) on the receiver t (0 is the nil receiver).
findNode(ns, t, name) ==
    LET nm == Clean(name)
    IN IF nm = Slash \/ nm = Dot THEN [node |-> t, err |-> NoErr]
       ELSE IF t = 0 THEN [node |-> 0, err |-> Panic]
       ELSE descend(ns, t, Split(TrimPrefix(nm, Slash)))

\* node.find(name): findNode, wrapped into a file handle by newFile.
find(ns, t, name) ==
    LET r == findNode(ns, t, name)
    IN [f |-> r.node, err |-> r.err]

\* node.addChild(child) on the node n: the child is appended to childInfos
\* and stored in childs under its name.
addChild(ns, n, child) ==
    LET id == Len(ns) + 1
        nm == Name(child)
        keys == DOMAIN ns[n].childs \cup {nm}
        parent == [ns[n] EXCEPT
                     !.childInfos = Append(@, id),
                     !.childs = [k \in keys |-> IF k = nm THEN id ELSE ns[n].childs[k]]]
    IN Append([ns EXCEPT ![n] = parent], child)

\* ------------------------------------------------------------------------
\* The physical filesystem (package os and io/ioutil), without symbolic links
\* ------------------------------------------------------------------------

RECURSIVE physErr(_, _)
\* The errno of a lookup of the absent path pp: ENOTDIR when an ancestor is
\* a regular file, ENOENT otherwise.
physErr(ph, pp) ==
    LET d == Dir(pp)
    IN IF d \in DOMAIN ph
       THEN IF ph[d].dir THEN "ENOENT" ELSE "ENOTDIR"
       ELSE IF d = pp THEN "ENOENT" ELSE physErr(ph, d)

\* The os.FileInfo of the physical entry pp.
physInfo(ph, pp) ==
    [src |-> "phys", name |-> Base(pp), dir |-> ph[pp].dir, size |-> Len(ph[pp].data)]

\* os.Lstat
osLstat(ph, pp) ==
    IF pp \in DOMAIN ph THEN Res(physInfo(ph, pp), NoErr)
    ELSE Res(NoVal, Err("lstat", physErr(ph, pp)))

\* os.Stat
osStat(ph, pp) ==
    IF pp \in DOMAIN ph THEN Res(physInfo(ph, pp), NoErr)
    ELSE Res(NoVal, Err("stat", physErr(ph, pp)))

\* os.Open: a handle on the physical entry.
osOpen(ph, pp) ==
    IF pp \in DOMAIN ph THEN Res([src |-> "phys", path |-> pp], NoErr)
    ELSE Res(NoVal, Err("open", physErr(ph, pp)))

\* The entries of the physical directory pp.
physChildren(ph, pp) == {q \in DOMAIN ph : q # pp /\ Dir(q) = pp}

RECURSIVE sortPaths(_)
\* The paths of a set, in ascending order of base name.
sortPaths(S) ==
    IF S = {} THEN <<>>
    ELSE LET mn == CHOOSE q \in S : \A r \in S \ {q} : StrLess(Base(q), Base(r))
         IN <<mn>> \o sortPaths(S \ {mn})

\* ioutil.ReadDir: the entries of a directory, sorted by file name.
ioutilReadDir(ph, pp) ==
    IF pp \notin DOMAIN ph THEN Res(NoVal, Err("open", physErr(ph, pp)))
    ELSE IF ~ph[pp].dir THEN Res(NoVal, Err("readdirent", "ENOTDIR"))
    ELSE LET l == sortPaths(physChildren(ph, pp))
         IN Res([src |-> "list", infos |-> [i \in 1..Len(l) |-> physInfo(ph, l[i])]], NoErr)

\* ioutil.ReadFile
ioutilReadFile(ph, pp) ==
    IF pp \notin DOMAIN ph THEN Res(NoVal, Err("open", physErr(ph, pp)))
    ELSE IF ph[pp].dir THEN Res(NoVal, Err("read", "is a directory"))
    ELSE Res([src |-> "bytes", data |-> ph[pp].data], NoErr)

\* ------------------------------------------------------------------------
\* Mount (mount.go)
\* ------------------------------------------------------------------------

\* Mount.cleanDir
cleanDir(p) == Dir(TrimPrefix(p, vroot))

\* Mount.open: the node the name resolves to in the tree (f = 0 is nil).
open(name) ==
    IF tree = 0 THEN [f |-> 0, err |-> ErrInvalid]
    ELSE LET nm == Clean(name)
         IN IF vroot = nm THEN [f |-> tree, err |-> NoErr]
            ELSE find(nodes, tree, TrimPrefix(nm, vroot))

\* Mount.namePhysical: name[len(m.vroot):] panics when name is shorter than vroot.
namePhysical(name) ==
    IF Len(name) < Len(vroot) THEN [panic |-> TRUE, path |-> <<>>]
    ELSE [panic |-> FALSE,
          path |-> Clean(Join(proot, SubSeq(name, Len(vroot) + 1, Len(name))))]

\* Mount.openPhysical
openPhysical(ph, name) ==
    LET pname == namePhysical(name)
    IN IF pname.panic THEN Res(NoVal, Panic)
       ELSE LET l == osLstat(ph, pname.path)
            IN IF IsNotExist(l.err) THEN Res(NoVal, l.err)
               ELSE osOpen(ph, pname.path)

\* The (File, error) or (os.FileInfo, error) a method returns from the
\* (*file, error) of Mount.open.
fileRes(o, asInfo) ==
    IF o.f = 0 THEN Res(NoVal, o.err)
    ELSE IF asInfo THEN Res(nodeInfo(nodes, o.f), o.err)
    ELSE Res([src |-> "tree", node |-> o.f], o.err)

\* Mount.Open
Open(ph, name) ==
    LET o == open(name)
    IN IF IsNotExist(o.err) THEN openPhysical(ph, name)
       ELSE fileRes(o, FALSE)

\* Mount.Lstat
Lstat(ph, name) ==
    LET o == open(name)
    IN IF IsNotExist(o.err)
       THEN LET pname == namePhysical(name)
            IN IF pname.panic THEN Res(NoVal, Panic) ELSE osLstat(ph, pname.path)
       ELSE fileRes(o, TRUE)

\* Mount.Stat
Stat(ph, name) ==
    LET o == open(name)
    IN IF IsNotExist(o.err)
       THEN LET pname == namePhysical(name)
            IN IF pname.panic THEN Res(NoVal, Panic) ELSE osStat(ph, pname.path)
       ELSE fileRes(o, TRUE)

\* File.Stat on an open handle.
handleStat(ph, h) ==
    IF h.src = "tree" THEN nodeInfo(nodes, h.node) ELSE physInfo(ph, h.path)

\* ioutil.ReadAll on an open handle.
handleReadAll(ph, h) ==
    IF h.src = "tree" THEN nodes[h.node].data ELSE ph[h.path].data

\* ReadFile without the fi.IsDir() test: a directory is read like a file.
ReadFile_noDirCheck(ph, name) ==
    LET r1 == Open(ph, name)
        r2 == IF IsNotExist(r1.err) THEN openPhysical(ph, name) ELSE r1
    IN IF r2.err # NoErr THEN Res(NoVal, r2.err)
       ELSE Res([src |-> "bytes", data |-> handleReadAll(ph, r2.val)], NoErr)

\* Mount.ReadFile
ReadFile(ph, name) ==
    LET r1 == Open(ph, name)
        r2 == IF IsNotExist(r1.err) THEN openPhysical(ph, name) ELSE r1
    IN IF r2.err # NoErr THEN Res(NoVal, r2.err)
       ELSE IF handleStat(ph, r2.val).dir
            THEN Res(NoVal, Err("read", "is a directory"))
            ELSE Res([src |-> "bytes", data |-> handleReadAll(ph, r2.val)], NoErr)

\* list := f.node.childInfos: the list shares the stored slice of the node.
copyInfos_alias(f) == [alias |-> f, items |-> nodes[f].childInfos]

\* list := append([]os.FileInfo{}, f.node.childInfos...): a slice of its own
\* holding the stored child infos (alias names the node whose stored slice
\* the list shares, 0 for none).
copyInfos(f) == [alias |-> 0, items |-> nodes[f].childInfos]

\* The orders sort.Sort(byName(list)) may leave the list in: sort.Sort is not
\* stable, so entries of equal name come in any order.
byNameSorted(list) ==
    LET n == Len(list)
        perms == {f \in [1..n -> 1..n] : \A i, j \in 1..n : i # j => f[i] # f[j]}
        ordered(f) == \A i \in 1..(n - 1) :
                         ~StrLess(Name(nodes[list[f[i + 1]]]), Name(nodes[list[f[i]]]))
    IN {[i \in 1..n |-> list[f[i]]] : f \in {g \in perms : ordered(g)}}

\* The listing ReadDir returns for the child ids in the order l.
listing(l) ==
    Res([src |-> "list", infos |-> [i \in 1..Len(l) |-> nodeInfo(nodes, l[i])]], NoErr)

\* The infos of the physical directory mapped to dirname, empty when there
\* is none.
physListing(ph, dirname) ==
    LET pname == namePhysical(dirname)
    IN IF pname.panic THEN <<>>
       ELSE LET r == ioutilReadDir(ph, pname.path)
            IN IF r.err = NoErr THEN r.val.infos ELSE <<>>

\* ReadDir merging the physical listing into the listing of a tree directory.
ReadDir_merge(ph, dirname) ==
    LET o == open(dirname)
    IN IF IsNotExist(o.err)
       THEN LET pname == namePhysical(dirname)
            IN IF pname.panic THEN {Res(NoVal, Panic)}
               ELSE {ioutilReadDir(ph, pname.path)}
       ELSE IF o.f = 0 THEN {Res(NoVal, Panic)}
       ELSE IF ~nodes[o.f].Dir THEN {Res(NoVal, Err("read", "is a file"))}
       ELSE {Res([src |-> "list",
                  infos |-> listing(l).val.infos \o physListing(ph, dirname)], NoErr) :
                l \in byNameSorted(nodes[o.f].childInfos)}

\* ReadDir without sort.Sort: the children in stored order.
ReadDir_unsorted(ph, dirname) ==
    LET o == open(dirname)
    IN IF IsNotExist(o.err)
       THEN LET pname == namePhysical(dirname)
            IN IF pname.panic THEN {Res(NoVal, Panic)}
               ELSE {ioutilReadDir(ph, pname.path)}
       ELSE IF o.f = 0 THEN {Res(NoVal, Panic)}
       ELSE IF ~nodes[o.f].Dir THEN {Res(NoVal, Err("read", "is a file"))}
       ELSE {listing(nodes[o.f].childInfos)}

\* Mount.ReadDir: the set of results the call can return.
ReadDir(ph, dirname) ==
    LET o == open(dirname)
    IN IF IsNotExist(o.err)
       THEN LET pname == namePhysical(dirname)
            IN IF pname.panic THEN {Res(NoVal, Panic)}
               ELSE {ioutilReadDir(ph, pname.path)}
       ELSE IF o.f = 0 THEN {Res(NoVal, Panic)}
       ELSE IF ~nodes[o.f].Dir THEN {Res(NoVal, Err("read", "is a file"))}
       ELSE {listing(l) : l \in byNameSorted(nodes[o.f].childInfos)}

\* AddDir attaching the directory to the root when its parent is missing,
\* and returning the error all the same.
AddDir_createOnError(mountPath, fi) ==
    LET r == findNode(nodes, tree, cleanDir(mountPath))
    IN IF r.err # NoErr
       THEN [nodes |-> IF tree = 0 THEN nodes
                       ELSE addChild(nodes, tree, newNode(mountPath, fi)),
             err |-> r.err]
       ELSE IF r.node = 0 THEN [nodes |-> nodes, err |-> NoErr]
       ELSE [nodes |-> addChild(nodes, r.node, newNode(mountPath, fi)), err |-> NoErr]

\* Mount.AddDir: the heap after the call and the error returned.
AddDir(mountPath, fi) ==
    LET r == findNode(nodes, tree, cleanDir(mountPath))
    IN IF r.err # NoErr THEN [nodes |-> nodes, err |-> r.err]
       ELSE IF r.node = 0 THEN [nodes |-> nodes, err |-> NoErr]
       ELSE [nodes |-> addChild(nodes, r.node, newNode(mountPath, fi)), err |-> NoErr]

\* AddFile without f.data = data: the node keeps no payload.
AddFile_noData(mountPath, fi, data) ==
    LET r == findNode(nodes, tree, cleanDir(mountPath))
    IN IF r.err # NoErr THEN [nodes |-> nodes, err |-> r.err]
       ELSE IF r.node = 0 THEN [nodes |-> nodes, err |-> Panic]
       ELSE [nodes |-> addChild(nodes, r.node, newNode(mountPath, fi)), err |-> NoErr]

\* Mount.AddFile: the heap after the call and the error returned; addChild
\* on a nil node is a nil pointer dereference.
AddFile(mountPath, fi, data) ==
    LET r == findNode(nodes, tree, cleanDir(mountPath))
        f == [newNode(mountPath, fi) EXCEPT !.data = data]
    IN IF r.err # NoErr THEN [nodes |-> nodes, err |-> r.err]
       ELSE IF r.node = 0 THEN [nodes |-> nodes, err |-> Panic]
       ELSE [nodes |-> addChild(nodes, r.node, f), err |-> NoErr]

\* ------------------------------------------------------------------------
\* The Mount under its callers
\* ------------------------------------------------------------------------

\* The virtual root and the physical root of the Mount.
VRoot == <<"/", "m", "t">>

PRoot == <<"/", "p">>

\* The os.FileInfo passed for a directory, and for a file holding data.
DirInfo == [dir |-> TRUE, size |-> 0]

FileInfo(data) == [dir |-> FALSE, size |-> Len(data)]

\* The payloads passed to AddFile.
DataSet == {<<>>, <<1>>}

\* The paths passed to AddDir and AddFile: below the root, nested, with a
\* trailing slash, and one that only shares its first characters with vroot.
AddPaths ==
    { <<"/", "m", "t", "/", "a">>,
      <<"/", "m", "t", "/", "z">>,
      <<"/", "m", "t", "/", "a", "/", "b">>,
      <<"/", "m", "t", "/", "a", "/">>,
      <<"/", "m", "t", "x">> }

\* The names passed to the read operations: the paths above, the root, names
\* shorter than vroot, a name found only on disk, and unclean names.
ReadNames ==
    AddPaths \cup
    { VRoot,
      <<"/">>,
      <<"/", "x">>,
      <<"/", "a">>,
      <<"/", "m", "t", "/", "x">>,
      <<"/", "m", "t", "/", "a", "/", ".", ".", "/", "z">>,
      <<"/", ".", "/", "m", "t", "/", "x">> }

\* A physical entry.
PDir == [dir |-> TRUE, data |-> <<>>]

PFile(data) == [dir |-> FALSE, data |-> data]

\* Contents of the physical filesystem: a populated physical root, no
\* physical root at all, and a root where a is a file and z a directory.
PhysFull ==
    ( <<"/">> :> PDir ) @@ ( PRoot :> PDir )
    @@ ( <<"/", "p", "/", "a">> :> PDir )
    @@ ( <<"/", "p", "/", "a", "/", "b">> :> PFile(<<7>>) )
    @@ ( <<"/", "p", "/", "a", "/", "t">> :> PFile(<<>>) )
    @@ ( <<"/", "p", "/", "x">> :> PFile(<<8>>) )
    @@ ( <<"/", "p", "/", "z">> :> PFile(<<9, 9>>) )

PhysNone == ( <<"/">> :> PDir )

PhysOther ==
    ( <<"/">> :> PDir ) @@ ( PRoot :> PDir )
    @@ ( <<"/", "p", "/", "a">> :> PFile(<<5>>) )
    @@ ( <<"/", "p", "/", "z">> :> PDir )
    @@ ( <<"/", "p", "/", "z", "/", "b">> :> PFile(<<6>>) )

PhysSet == {PhysFull, PhysNone, PhysOther}

\* A call and its result, as kept in last.
Call(op, name, data, res) == [op |-> op, name |-> name, data |-> data, res |-> res]

NoCall == Call("none", <<>>, <<>>, Res(NoVal, NoErr))

\* What a call of Binary leaves behind: the statements written to buf, the
\* error met, the entries the walk callback was called on, the files
\* os.Open has opened and the handles Close was called on.
Run(buf, err, walked, opened, closed) ==
    [buf |-> buf, err |-> err, walked |-> walked, opened |-> opened, closed |-> closed]

\* No Binary call.
NoBin == [mountPath |-> <<>>, physicalPath |-> <<>>,
          skipList |-> [valid |-> TRUE, names |-> {}], faults |-> {},
          err |-> NoErr, run |-> Run(<<>>, NoErr, <<>>, {}, {})]

\* The goroutines that read the Mount while it serves.
Readers == {"r1", "r2"}

\* A reader with no call in progress.
Idle ==
    [stage |-> "idle", op |-> "none", name |-> <<>>, f |-> 0,
     list |-> [alias |-> 0, items |-> <<>>], res |-> Res(NoVal, NoErr)]

\* A Mount as vfs.AddMount constructs it (a root node for vroot), or a Mount
\* whose tree was never set: with its roots set, or the zero value Mount{}.
Init ==
    /\ tree \in {0, 1}
    /\ vroot \in (IF tree = 0 THEN {VRoot, <<>>} ELSE {VRoot})
    /\ proot = IF vroot = <<>> THEN <<>> ELSE PRoot
    /\ nodes = IF tree = 0 THEN <<>> ELSE <<newNode(VRoot, DirInfo)>>
    /\ phys \in PhysSet
    /\ added = {}
    /\ last = NoCall
    /\ bin = NoBin
    /\ out = <<>>
    /\ pc = 0
    /\ serving = FALSE
    /\ rd = [r \in Readers |-> Idle]

\* The Mount is populated first and serves reads afterwards. A read changes
\* nothing but last, so the reads of a tree are all taken from the state its
\* population reached.
Populating == last.op \in {"none", "AddDir", "AddFile"}

\* A caller adds a directory.
DoAddDir ==
    /\ Populating
    /\ ~serving
    /\ Len(nodes) < MaxNodes
    /\ \E p \in AddPaths :
         LET r == AddDir(p, DirInfo)
         IN /\ nodes' = r.nodes
            /\ last' = Call("AddDir", p, <<>>, Res(NoVal, r.err))
    /\ UNCHANGED <<vroot, proot, tree, phys, added, bin, out, pc, serving, rd>>

\* A caller adds a file.
DoAddFile ==
    /\ Populating
    /\ ~serving
    /\ Len(nodes) < MaxNodes
    /\ \E p \in AddPaths, d \in DataSet :
         LET r == AddFile(p, FileInfo(d), d)
         IN /\ nodes' = r.nodes
            /\ last' = Call("AddFile", p, d, Res(NoVal, r.err))
            /\ added' = IF r.err = NoErr THEN added \cup {[path |-> p, data |-> d]}
                        ELSE added
    /\ UNCHANGED <<vroot, proot, tree, phys, bin, out, pc, serving, rd>>

\* A caller opens a name.
DoOpen ==
    /\ Populating
    /\ \E name \in ReadNames : last' = Call("Open", name, <<>>, Open(phys, name))
    /\ UNCHANGED <<vroot, proot, tree, nodes, phys, added, bin, out, pc, serving, rd>>

DoLstat ==
    /\ Populating
    /\ \E name \in ReadNames : last' = Call("Lstat", name, <<>>, Lstat(phys, name))
    /\ UNCHANGED <<vroot, proot, tree, nodes, phys, added, bin, out, pc, serving, rd>>

DoStat ==
    /\ Populating
    /\ \E name \in ReadNames : last' = Call("Stat", name, <<>>, Stat(phys, name))
    /\ UNCHANGED <<vroot, proot, tree, nodes, phys, added, bin, out, pc, serving, rd>>

DoReadFile ==
    /\ Populating
    /\ \E name \in ReadNames : last' = Call("ReadFile", name, <<>>, ReadFile(phys, name))
    /\ UNCHANGED <<vroot, proot, tree, nodes, phys, added, bin, out, pc, serving, rd>>

DoReadDir ==
    /\ Populating
    /\ \E name \in ReadNames :
         \E r \in ReadDir(phys, name) : last' = Call("ReadDir", name, <<>>, r)
    /\ UNCHANGED <<vroot, proot, tree, nodes, phys, added, bin, out, pc, serving, rd>>

Next ==
    \/ DoAddDir
    \/ DoAddFile
    \/ DoOpen
    \/ DoLstat
    \/ DoStat
    \/ DoReadFile
    \/ DoReadDir

Spec == Init /\ [][Next]_vars

\* The read operations and the insertions of a Mount.
ReadOps == {"Open", "Lstat", "Stat", "ReadFile", "ReadDir"}

AddOps == {"AddDir", "AddFile"}

\* The results the read operation op can return for name over the physical
\* filesystem ph.
ResultsOf(op, ph, name) ==
    CASE op = "Open"     -> {Open(ph, name)}
      [] op = "Lstat"    -> {Lstat(ph, name)}
      [] op = "Stat"     -> {Stat(ph, name)}
      [] op = "ReadFile" -> {ReadFile(ph, name)}
      [] op = "ReadDir"  -> ReadDir(ph, name)

\* The name resolves to a node of the tree.
InTree(name) == open(name).err = NoErr /\ open(name).f # 0

\* The name is not present in the tree: the lookup reports not-exist.
NotInTree(name) == IsNotExist(open(name).err)

\* ------------------------------------------------------------------------
\* The Mount serving several readers
\* ------------------------------------------------------------------------

\* The names the readers pass: the root and a path below it.
ServeNames == {VRoot, <<"/", "m", "t", "/", "a">>}

\* A Mount with a root node, before its population.
InitServe ==
    /\ tree = 1
    /\ vroot = VRoot
    /\ proot = PRoot
    /\ nodes = <<newNode(VRoot, DirInfo)>>
    /\ phys = PhysFull
    /\ added = {}
    /\ last = NoCall
    /\ bin = NoBin
    /\ out = <<>>
    /\ pc = 0
    /\ serving = FALSE
    /\ rd = [r \in Readers |-> Idle]

\* Population is complete: from here on only reads are issued.
StartServing ==
    /\ ~serving
    /\ serving' = TRUE
    /\ last' = NoCall
    /\ UNCHANGED <<vroot, proot, tree, nodes, phys, added, bin, out, pc, rd>>

\* The reader r calls a read operation. Open, Lstat, Stat and ReadFile only
\* read the tree and run to their result; ReadDir of a directory of the tree
\* goes on with the steps below, and returns at once in its other cases.
CallRead(r) ==
    /\ serving
    /\ rd[r].stage = "idle"
    /\ \E op \in ReadOps, name \in ServeNames :
         IF op = "ReadDir" /\ InTree(name) /\ nodes[open(name).f].Dir
         THEN rd' = [rd EXCEPT ![r] = [Idle EXCEPT !.stage = "opened", !.op = op,
                                                   !.name = name, !.f = open(name).f]]
         ELSE \E res \in ResultsOf(op, phys, name) :
                 rd' = [rd EXCEPT ![r] = [Idle EXCEPT !.stage = "done", !.op = op,
                                                      !.name = name, !.res = res]]
    /\ UNCHANGED <<vroot, proot, tree, nodes, phys, added, last, bin, out, pc, serving>>

\* ReadDir of the reader r takes its list of the child infos.
ReadDirCopy(r) ==
    /\ rd[r].stage = "opened"
    /\ rd' = [rd EXCEPT ![r].stage = "copied", ![r].list = copyInfos(rd[r].f)]
    /\ UNCHANGED <<vroot, proot, tree, nodes, phys, added, last, bin, out, pc, serving>>

\* sort.Sort(byName(list)) of the reader r: the list is permuted in place,
\* and with it the stored slice of a node when the list shares it.
ReadDirSort(r) ==
    /\ rd[r].stage = "copied"
    /\ \E l \in byNameSorted(rd[r].list.items) :
         /\ rd' = [rd EXCEPT ![r].stage = "sorted", ![r].list.items = l]
         /\ nodes' = IF rd[r].list.alias = 0 THEN nodes
                     ELSE [nodes EXCEPT ![rd[r].list.alias].childInfos = l]
    /\ UNCHANGED <<vroot, proot, tree, phys, added, last, bin, out, pc, serving>>

\* ReadDir of the reader r returns its list.
ReadDirReturn(r) ==
    /\ rd[r].stage = "sorted"
    /\ rd' = [rd EXCEPT ![r].stage = "done", ![r].res = listing(rd[r].list.items)]
    /\ UNCHANGED <<vroot, proot, tree, nodes, phys, added, last, bin, out, pc, serving>>

\* The reader r has its result and is ready for its next call.
Return(r) ==
    /\ rd[r].stage = "done"
    /\ rd' = [rd EXCEPT ![r] = Idle]
    /\ UNCHANGED <<vroot, proot, tree, nodes, phys, added, last, bin, out, pc, serving>>

NextServe ==
    \/ DoAddDir
    \/ DoAddFile
    \/ StartServing
    \/ \E r \in Readers : CallRead(r)
    \/ \E r \in Readers : ReadDirCopy(r)
    \/ \E r \in Readers : ReadDirSort(r)
    \/ \E r \in Readers : ReadDirReturn(r)
    \/ \E r \in Readers : Return(r)

SpecServe == InitServe /\ [][NextServe]_vars

\* ------------------------------------------------------------------------
\* The Binary compiler (binary.go)
\* ------------------------------------------------------------------------

\* The byte values of the double quote and the backslash.
QuoteByte == 34

BackslashByte == 92

RECURSIVE Escape(_)
\* convertFile: the bytes of a file as the body of a quoted string literal;
\* a quote or a backslash is preceded by a backslash.
Escape(data) ==
    IF data = <<>> THEN <<>>
    ELSE IF Head(data) \in {QuoteByte, BackslashByte}
         THEN <<BackslashByte, Head(data)>> \o Escape(Tail(data))
         ELSE <<Head(data)>> \o Escape(Tail(data))

RECURSIVE Unescape(_)
\* The bytes the body of a string literal denotes when the generated source
\* is compiled.
Unescape(lit) ==
    IF lit = <<>> THEN <<>>
    ELSE IF Head(lit) = BackslashByte /\ Len(lit) > 1
         THEN <<lit[2]>> \o Unescape(Tail(Tail(lit)))
         ELSE <<Head(lit)>> \o Unescape(Tail(lit))

\* ess.Excludes.Match: the base name matches a rule of the list.
Match(skipList, base) == base \in skipList.names

\* The test of the walk callback: skipList.Match(filepath.Base(fpath)), on
\* the whole path by mistake.
skipMatch_fullPath(skipList, fpath) == Match(skipList, fpath)

\* The test of the walk callback: skipList.Match(filepath.Base(fpath)).
skipMatch(skipList, fpath) == Match(skipList, Base(fpath))

RECURSIVE walk(_, _, _)
RECURSIVE walkList(_, _, _, _)
\* ess.Walk under the callback of Binary: the entries the callback is called
\* on, in the order of the walk (a directory before its entries, the entries
\* in lexical order), each with the outcome of the skip test; a skipped
\* directory is not descended into.
walk(ph, fpath, skipList) ==
    IF skipMatch(skipList, fpath)
    THEN <<[fpath |-> fpath, dir |-> ph[Clean(fpath)].dir, skip |-> TRUE]>>
    ELSE IF ~ph[Clean(fpath)].dir
         THEN <<[fpath |-> fpath, dir |-> FALSE, skip |-> FALSE]>>
         ELSE <<[fpath |-> fpath, dir |-> TRUE, skip |-> FALSE]>>
              \o walkList(ph, fpath, sortPaths(physChildren(ph, Clean(fpath))), skipList)

\* The walk of the entries of the directory fpath, one after the other.
walkList(ph, fpath, kids, skipList) ==
    IF kids = <<>> THEN <<>>
    ELSE walk(ph, Join(fpath, Base(Head(kids))), skipList)
         \o walkList(ph, fpath, Tail(kids), skipList)

\* filepath.ToSlash(filepath.Join(mountPath, strings.TrimPrefix(fpath, physicalPath)))
virtualPath(mountPath, physicalPath, fpath) ==
    Join(mountPath, TrimPrefix(fpath, physicalPath))

\* The "add directory" statement of the template vfs_directory.
dirStmt(mp) ==
    [kind |-> "dir", path |-> mp, info |-> [dir |-> TRUE, size |-> 0], lit |-> <<>>]

\* The "add file" statement of the template vfs_file, followed by the byte
\* literal when the file is not empty.
fileStmt(ph, mp, fpath) ==
    LET size == Len(ph[Clean(fpath)].data)
    IN [kind |-> "file", path |-> mp, info |-> [dir |-> FALSE, size |-> size],
        lit |-> IF size > 0 THEN Escape(ph[Clean(fpath)].data) ELSE <<>>]

\* The orders in which a range over a map of n keys can visit them.
Orders(n) == {f \in [1..n -> 1..n] : \A i, j \in 1..n : i # j => f[i] # f[j]}

\* The directory pass of Binary: a statement for each directory of the walk
\* whose virtual path is not the mount path.
dirPass(mountPath, physicalPath, visited) ==
    LET isDir(v) == v.dir /\ virtualPath(mountPath, physicalPath, v.fpath) # mountPath
        dirs == SelectSeq(visited, isDir)
    IN [i \in 1..Len(dirs) |-> dirStmt(virtualPath(mountPath, physicalPath, dirs[i].fpath))]

\* A step of Binary that the environment makes fail: the rendering of the
\* preamble, the walk at an entry, the opening or the conversion of a file,
\* the formatting of the source.
Fault(step, fpath) == [step |-> step, path |-> fpath]

\* The least of the indices bad of 1..n, n + 1 when there is none.
FirstIndex(n, bad) ==
    IF bad = {} THEN n + 1 ELSE CHOOSE i \in bad : \A j \in bad : i <= j

\* The file pass of Binary, visiting the files in the order f: each file is
\* opened, its statement written, its bytes converted when it is not empty;
\* the first failure ends the pass.  Nothing closes a file it has opened.
filePass(ph, mountPath, physicalPath, files, f, faults, dirs, walked) ==
    LET n == Len(files)
        file(i) == files[f[i]]
        size(i) == Len(ph[Clean(file(i).fpath)].data)
        openFails(i) == Fault("open", file(i).fpath) \in faults
        convertFails(i) == size(i) > 0 /\ Fault("convert", file(i).fpath) \in faults
        fails(i) == openFails(i) \/ convertFails(i)
        k == FirstIndex(n, {i \in 1..n : fails(i)})
        fstmt(v) == fileStmt(ph, virtualPath(mountPath, physicalPath, v.fpath), v.fpath)
        buf == dirs \o [i \in 1..(k - 1) |-> fstmt(file(i))]
        opened == {file(i).fpath : i \in {j \in 1..n : j < k \/ (j = k /\ ~openFails(j))}}
    IN IF k <= n
       THEN Run(buf, IF openFails(k) THEN Err("open", "EACCES") ELSE Err("convert", "EIO"),
                walked, opened, {})
       ELSE IF Fault("format", <<>>) \in faults
       THEN Run(buf, Err("format", "source"), walked, opened, {})
       ELSE Run(buf, NoErr, walked, opened, {})

\* The body of Binary up to its return statements: the runs the call can
\* take, one for each order in which the range over the files map visits
\* the files.
binaryRuns(ph, mountPath, physicalPath, skipList, faults) ==
    IF ~skipList.valid
    THEN {Run(<<>>, Err("validate", "invalid"), <<>>, {}, {})}
    ELSE IF Fault("preamble", <<>>) \in faults
    THEN {Run(<<>>, Err("template", "vfs_binary"), <<>>, {}, {})}
    ELSE IF Clean(physicalPath) \notin DOMAIN ph
    THEN {Run(<<>>, osLstat(ph, Clean(physicalPath)).err, <<physicalPath>>, {}, {})}
    ELSE LET entries == walk(ph, physicalPath, skipList)
             walkFails(i) == Fault("walk", entries[i].fpath) \in faults
             k == FirstIndex(Len(entries), {i \in 1..Len(entries) : walkFails(i)})
             done == SubSeq(entries, 1, k - 1)
             met == IF k <= Len(entries) THEN SubSeq(entries, 1, k) ELSE entries
             walked == [i \in 1..Len(met) |-> met[i].fpath]
             kept(v) == ~v.skip
             visited == SelectSeq(done, kept)
             isFile(v) == ~v.dir
             files == SelectSeq(visited, isFile)
             dirs == dirPass(mountPath, physicalPath, visited)
         IN IF k <= Len(entries)
            THEN {Run(dirs, Err("walk", "EACCES"), walked, {}, {})}
            ELSE {filePass(ph, mountPath, physicalPath, files, f, faults, dirs, walked) :
                    f \in Orders(Len(files))}

\* The result of a run: the statements of the generated source, or an error
\* and no output.
Result(r) ==
    [out |-> IF r.err = NoErr THEN r.buf ELSE <<>>, err |-> r.err, run |-> r]

\* Binary writing each file where the walk meets it, in a single pass.
Binary_singlePass(ph, mountPath, physicalPath, skipList, faults) ==
    IF ~skipList.valid \/ faults # {} \/ Clean(physicalPath) \notin DOMAIN ph
    THEN {Result(r) : r \in binaryRuns(ph, mountPath, physicalPath, skipList, faults)}
    ELSE LET entries == walk(ph, physicalPath, skipList)
             keep(v) == ~v.skip /\ (~v.dir \/ virtualPath(mountPath, physicalPath, v.fpath) # mountPath)
             kept == SelectSeq(entries, keep)
             isFile(v) == ~v.dir /\ ~v.skip
             files == SelectSeq(entries, isFile)
             stmt(v) == IF v.dir
                        THEN dirStmt(virtualPath(mountPath, physicalPath, v.fpath))
                        ELSE fileStmt(ph, virtualPath(mountPath, physicalPath, v.fpath), v.fpath)
         IN {Result(Run([i \in 1..Len(kept) |-> stmt(kept[i])], NoErr,
                        [i \in 1..Len(entries) |-> entries[i].fpath],
                        {files[i].fpath : i \in 1..Len(files)}, {}))}

\* Binary returning what buf holds along with the error of a failed step.
Binary_partialOutput(ph, mountPath, physicalPath, skipList, faults) ==
    {[out |-> r.buf, err |-> r.err, run |-> r] :
        r \in binaryRuns(ph, mountPath, physicalPath, skipList, faults)}

\* Binary: the results the call can return.
Binary(ph, mountPath, physicalPath, skipList, faults) ==
    {Result(r) : r \in binaryRuns(ph, mountPath, physicalPath, skipList, faults)}

\* The mount paths passed to Binary: clean, with a trailing slash, and the
\* root.
MountPaths == {VRoot, VRoot \o Slash, Slash}

\* The exclusion lists passed to Binary: none, single names, a directory and
\* a file name, the name of the physical root, and a list Validate rejects.
SkipLists ==
    { [valid |-> TRUE, names |-> {}],
      [valid |-> TRUE, names |-> {<<"t">>}],
      [valid |-> TRUE, names |-> {<<"a">>}],
      [valid |-> TRUE, names |-> {<<"a">>, <<"x">>}],
      [valid |-> TRUE, names |-> {<<"p">>}],
      [valid |-> FALSE, names |-> {}] }

\* A physical root with directories two levels deep and a file holding a
\* quote and a backslash.
PhysDeep ==
    ( <<"/">> :> PDir ) @@ ( PRoot :> PDir )
    @@ ( <<"/", "p", "/", "a">> :> PDir )
    @@ ( <<"/", "p", "/", "a", "/", "b">> :> PDir )
    @@ ( <<"/", "p", "/", "a", "/", "b", "/", "x">> :> PFile(<<34, 92, 3>>) )
    @@ ( <<"/", "p", "/", "t">> :> PDir )
    @@ ( <<"/", "p", "/", "t", "/", "z">> :> PFile(<<4>>) )

BinPhysSet == {PhysFull, PhysOther, PhysDeep, PhysNone}

\* The steps the environment makes fail during a call of Binary: none, one
\* of each kind, and two files of which the range meets either first.
FaultSets ==
    { {},
      {Fault("preamble", <<>>)},
      {Fault("walk", <<"/", "p", "/", "x">>)},
      {Fault("open", <<"/", "p", "/", "a", "/", "t">>)},
      {Fault("convert", <<"/", "p", "/", "z">>)},
      {Fault("open", <<"/", "p", "/", "z">>), Fault("convert", <<"/", "p", "/", "x">>)},
      {Fault("format", <<>>)} }

\* An empty Mount at the mount path, and the arguments of the Binary call.
InitBinary ==
    /\ bin \in [mountPath : MountPaths, physicalPath : {PRoot},
                skipList : SkipLists, faults : FaultSets,
                err : {NoErr}, run : {Run(<<>>, NoErr, <<>>, {}, {})}]
    /\ vroot \in {bin.mountPath, Clean(bin.mountPath)}
    /\ proot = PRoot
    /\ tree = 1
    /\ nodes = <<newNode(vroot, DirInfo)>>
    /\ phys \in BinPhysSet
    /\ added = {}
    /\ last = NoCall
    /\ out = <<>>
    /\ pc = 0
    /\ serving = FALSE
    /\ rd = [r \in Readers |-> Idle]

\* Binary runs.
DoBinary ==
    /\ pc = 0
    /\ \E r \in Binary(phys, bin.mountPath, bin.physicalPath, bin.skipList, bin.faults) :
         /\ out' = r.out
         /\ bin' = [bin EXCEPT !.err = r.err, !.run = r.run]
    /\ pc' = 1
    /\ UNCHANGED <<vroot, proot, tree, nodes, phys, added, last, serving, rd>>

\* The init function of the generated source executes its next statement
\* on the Mount.
ExecStmt ==
    /\ pc \in 1..Len(out)
    /\ LET st == out[pc]
           data == Unescape(st.lit)
           r == IF st.kind = "dir" THEN AddDir(st.path, st.info)
                ELSE AddFile(st.path, st.info, data)
       IN /\ nodes' = r.nodes
          /\ last' = Call(IF st.kind = "dir" THEN "AddDir" ELSE "AddFile",
                          st.path, data, Res(NoVal, r.err))
          /\ added' = IF st.kind = "file" /\ r.err = NoErr
                      THEN added \cup {[path |-> st.path, data |-> data]}
                      ELSE added
    /\ pc' = pc + 1
    /\ UNCHANGED <<vroot, proot, tree, phys, bin, out, serving, rd>>

NextBinary ==
    \/ DoBinary
    \/ ExecStmt

SpecBinary == InitBinary /\ [][NextBinary]_vars

\* ------------------------------------------------------------------------
\* Properties of the Mount
\* ------------------------------------------------------------------------

\* The names in a listing, in order.
ListNames(res) == [i \in 1..Len(res.val.infos) |-> res.val.infos[i].name]

\* C1: after any sequence of successful AddDir/AddFile calls, ReadFile(p)
\* returns, with no error, exactly the bytes of every AddFile(p, info, data)
\* call that returned nil.
C1_RoundTrip ==
    \A a \in added :
        ReadFile(phys, a.path) = Res([src |-> "bytes", data |-> a.data], NoErr)

\* C2: when the name of a read resolves to a node of the tree, the result is
\* the one the call returns over every other content of the physical
\* filesystem, and a listing holds only children recorded in the tree.
C2_VirtualTreeWins ==
    (last.op \in ReadOps /\ InTree(last.name)) =>
        /\ \A ph \in PhysSet : last.res \in ResultsOf(last.op, ph, last.name)
        /\ (last.op = "ReadDir" /\ last.res.err = NoErr) =>
              \A i \in 1..Len(last.res.val.infos) :
                 \E c \in 1..Len(nodes[open(last.name).f].childInfos) :
                    last.res.val.infos[i] =
                        nodeInfo(nodes, nodes[open(last.name).f].childInfos[c])

\* A ReadDir of a directory of the tree returned its children while the
\* mapped physical directory holds an entry the tree does not have.
C2_Witness ==
    /\ last.op = "ReadDir"
    /\ InTree(last.name)
    /\ last.res.err = NoErr
    /\ Len(last.res.val.infos) > 0
    /\ ~namePhysical(last.name).panic
    /\ \E q \in physChildren(phys, namePhysical(last.name).path) :
          \A i \in 1..Len(last.res.val.infos) : last.res.val.infos[i].name # Base(q)

\* The physical primitive a read operation is equivalent to, on the path pp.
Primitive(op, ph, pp) ==
    CASE op = "Open"     -> osOpen(ph, pp)
      [] op = "Lstat"    -> osLstat(ph, pp)
      [] op = "Stat"     -> osStat(ph, pp)
      [] op = "ReadFile" -> ioutilReadFile(ph, pp)
      [] op = "ReadDir"  -> ioutilReadDir(ph, pp)

\* The mapped physical path: the virtual-root prefix replaced by the
\* physical root.
Mapped(name) == Join(proot, TrimPrefix(name, vroot))

\* C3: for every name not present in the tree, whatever its length, a read
\* returns the value and the error cause of the physical primitive on the
\* mapped path.
C3_FallbackEquivalence ==
    (last.op \in ReadOps /\ NotInTree(last.name)) =>
        LET prim == Primitive(last.op, phys, Mapped(last.name))
        IN /\ last.res.val = prim.val
           /\ last.res.err.code = prim.err.code

\* C4: AddDir and AddFile under a parent that was never added fail with the
\* insertion error, and AddFile under a parent whose lookup returns no node
\* and no error returns nil, as AddDir does.
C4_InsertionAsymmetry ==
    last.op \in AddOps =>
        LET r == findNode(nodes, tree, cleanDir(last.name))
        IN /\ IsNotExist(r.err) => last.res.err = r.err
           /\ (r.err = NoErr /\ r.node = 0) => last.res.err = NoErr

\* C5: every read operation on a Mount whose tree is uninitialized returns
\* the Invalid error and no value.
C5_InvalidOnNilTree ==
    (last.op \in ReadOps /\ tree = 0) => last.res = Res(NoVal, ErrInvalid)

\* The number of positions of the sequence s that hold x.
Count(s, x) == Cardinality({i \in 1..Len(s) : s[i] = x})

\* The infos of the children of node id, in stored (insertion) order.
StoredInfos(id) ==
    [i \in 1..Len(nodes[id].childInfos) |-> nodeInfo(nodes, nodes[id].childInfos[i])]

\* C6: ReadDir of a directory of the tree returns its children, each once per
\* insertion, in ascending order of name whatever the order of insertion.
C6_ReadDirSorted ==
    (last.op = "ReadDir" /\ InTree(last.name) /\ last.res.err = NoErr) =>
        LET infos == last.res.val.infos
            stored == StoredInfos(open(last.name).f)
        IN /\ Len(infos) = Len(stored)
           /\ \A i \in 1..Len(stored) : Count(infos, stored[i]) = Count(stored, stored[i])
           /\ \A i \in 1..(Len(infos) - 1) : ~StrLess(infos[i + 1].name, infos[i].name)

\* A ReadDir listed a directory whose children were inserted out of order.
C6_Witness ==
    /\ last.op = "ReadDir"
    /\ InTree(last.name)
    /\ last.res.err = NoErr
    /\ LET stored == StoredInfos(open(last.name).f)
       IN \E i, j \in 1..Len(stored) : i < j /\ StrLess(stored[j].name, stored[i].name)

\* The name resolves to a physical entry through the fallback.
InPhys(name) ==
    /\ NotInTree(name)
    /\ ~namePhysical(name).panic
    /\ namePhysical(name).path \in DOMAIN phys

\* The entry a name resolves to is a directory.
ResolvedIsDir(name) ==
    IF InTree(name) THEN nodes[open(name).f].Dir
    ELSE phys[namePhysical(name).path].dir

\* ReadFile fails with 'is a directory', and returns no bytes, whenever the
\* entry is a directory, in the tree or on disk.
ReadFileOfDir ==
    (last.op = "ReadFile" /\ (InTree(last.name) \/ InPhys(last.name))
       /\ ResolvedIsDir(last.name)) =>
        last.res = Res(NoVal, Err("read", "is a directory"))

\* C7 as stated: ReadFile of a directory fails with 'is a directory', and
\* ReadDir of any entry that is not a directory fails with 'is a file'.
C7_Original ==
    /\ ReadFileOfDir
    /\ (last.op = "ReadDir" /\ (InTree(last.name) \/ InPhys(last.name))
          /\ ~ResolvedIsDir(last.name)) =>
           last.res = Res(NoVal, Err("read", "is a file"))

\* C7: ReadFile of a directory fails with 'is a directory'; ReadDir fails
\* with 'is a file' when the name resolves in the tree to a node that is not
\* a directory, and with the 'not a directory' error of the physical listing
\* when it resolves to a file through the fallback; neither returns a value.
C7_TypeMismatch ==
    /\ ReadFileOfDir
    /\ (last.op = "ReadDir" /\ InTree(last.name) /\ ~ResolvedIsDir(last.name)) =>
           last.res = Res(NoVal, Err("read", "is a file"))
    /\ (last.op = "ReadDir" /\ InPhys(last.name) /\ ~ResolvedIsDir(last.name)) =>
           last.res = Res(NoVal, Err("readdirent", "ENOTDIR"))

\* A ReadDir fell back to a physical file.
C7_Witness ==
    /\ last.op = "ReadDir"
    /\ InPhys(last.name)
    /\ ~ResolvedIsDir(last.name)
    /\ last.res.err.code = "ENOTDIR"

\* C13: the paths of the nodes of the tree are pairwise different, and each
\* node is stored as a child of the node whose path is its own path with
\* the last segment removed.
C13_TreePathInvariant ==
    /\ \A i, j \in 1..Len(nodes) : i # j => nodes[i].Path # nodes[j].Path
    /\ \A n \in 1..Len(nodes) :
          \A k \in 1..Len(nodes[n].childInfos) :
             Dir(Clean(nodes[nodes[n].childInfos[k]].Path)) = Clean(nodes[n].Path)

\* C14: every node is a directory with no payload or a file with no
\* children.
C14_Exclusivity ==
    \A n \in 1..Len(nodes) :
        IF nodes[n].Dir THEN nodes[n].data = <<>>
        ELSE nodes[n].childInfos = <<>> /\ nodes[n].childs = EmptyMap

\* C16: a read of a name returns a result the same read returns for the
\* normalized name, and a name that normalizes to the virtual root resolves
\* to the root node.
C16_NormalizationConsistency ==
    last.op \in ReadOps =>
        /\ last.res \in ResultsOf(last.op, phys, Clean(last.name))
        /\ (tree # 0 /\ Clean(last.name) = vroot) => open(last.name).f = tree

\* q lies strictly below the directory d.
Below(q, d) ==
    IF d = Slash THEN q # Slash /\ HasPrefix(q, Slash)
    ELSE HasPrefix(q, d \o Slash)

\* The virtual root is a path prefix of the name: the name is the root or a
\* path below it.
UnderVRoot(name) == Clean(name) = vroot \/ Below(Clean(name), vroot)

\* C17: a read of a name that does not have the virtual root as a path
\* prefix does not resolve in the tree and returns no node of the tree.
C17_MountConfinement ==
    (last.op \in ReadOps /\ tree # 0 /\ ~UnderVRoot(last.name)) =>
        /\ ~InTree(last.name)
        /\ last.res.val.src # "tree"

\* C18: an AddDir or AddFile call that returns an error, or whose parent
\* lookup returns neither a node nor an error, leaves the tree as it was:
\* the heap of nodes, with the children and payload of each, is unchanged.
C18_InsertionFrame ==
    [][ ( /\ last'.op \in AddOps
          /\ \/ last'.res.err # NoErr
             \/ findNode(nodes, tree, cleanDir(last'.name)) = [node |-> 0, err |-> NoErr] )
        => (nodes' = nodes /\ tree' = tree) ]_vars

\* An insertion into a tree that already holds a node below the root has
\* returned a not-exist error.
C18_Witness ==
    /\ last.op \in AddOps
    /\ IsNotExist(last.res.err)
    /\ Len(nodes) >= 2

\* C19: while the Mount serves, no step of a read operation of any reader
\* changes the tree (the stored order of the children included), and the
\* result a call ends with is a result the same call returns when it runs
\* alone on that tree.
C19_ServingConcurrency ==
    [][ serving =>
          /\ nodes' = nodes
          /\ tree' = tree
          /\ \A r \in Readers :
                rd'[r].stage = "done" =>
                   rd'[r].res \in ResultsOf(rd'[r].op, phys, rd'[r].name) ]_vars

\* A reader has the sorted listing of a directory whose children are stored
\* in another order, while the other reader is inside a ReadDir call.
C19_Witness ==
    /\ serving
    /\ \E r, q \in Readers :
          /\ r # q
          /\ rd[r].stage = "done"
          /\ rd[r].op = "ReadDir"
          /\ InTree(rd[r].name)
          /\ rd[r].res.err = NoErr
          /\ Len(rd[r].res.val.infos) >= 2
          /\ rd[r].res # listing(nodes[open(rd[r].name).f].childInfos)
          /\ rd[q].stage \in {"opened", "copied", "sorted"}

\* ------------------------------------------------------------------------
\* Properties of the Binary compiler
\* ------------------------------------------------------------------------

\* Binary has returned output.
Compiled == pc >= 1 /\ bin.err = NoErr

\* The generated source has been executed to its end.
Executed == Compiled /\ pc = Len(out) + 1

\* The physical entries below the physical root of the compilation.
PhysEntries == {q \in DOMAIN phys : Below(q, Clean(bin.physicalPath))}

\* The virtual path a physical entry is mapped to.
VPath(q) == Join(bin.mountPath, TrimPrefix(q, Clean(bin.physicalPath)))

\* C8: with no exclusions, executing the generated statements in order on an
\* empty Mount at the mount path raises no insertion error, and afterwards
\* every physical file reads back, from the tree alone, with its on-disk
\* bytes and every physical sub-directory Stats as a directory.
C8_CompileExecRoundTrip ==
    (Compiled /\ bin.skipList.names = {}) =>
        /\ pc > 1 => last.res.err = NoErr
        /\ Executed =>
             \A q \in PhysEntries :
                IF phys[q].dir
                THEN /\ Stat(PhysNone, VPath(q)).err = NoErr
                     /\ Stat(PhysNone, VPath(q)).val.src = "tree"
                     /\ Stat(PhysNone, VPath(q)).val.dir
                ELSE ReadFile(PhysNone, VPath(q)) =
                        Res([src |-> "bytes", data |-> phys[q].data], NoErr)

\* The source of a tree with a non-empty file in a sub-directory, and an
\* empty file, has been executed.
C8_Witness ==
    /\ Executed
    /\ bin.skipList.names = {}
    /\ \E q \in PhysEntries :
          ~phys[q].dir /\ phys[q].data # <<>> /\ Dir(q) # Clean(bin.physicalPath)
    /\ \E i \in 1..Len(out) : out[i].kind = "file" /\ out[i].lit # <<>>
                              /\ out[i].lit # Unescape(out[i].lit)

RECURSIVE Ancestors(_)
\* The proper ancestors of a clean path.
Ancestors(p) == IF Dir(p) = p THEN {} ELSE {Dir(p)} \cup Ancestors(Dir(p))

\* The position of the add-directory statement for the path a is before i.
DirStmtBefore(a, i) == \E j \in 1..(i - 1) : out[j].kind = "dir" /\ out[j].path = a

\* C9: in the generated source every add-directory statement precedes every
\* add-file statement, a nested directory comes after its parent, and the
\* directories above a file, the root aside, all come before the file.
C9_EmissionOrdering ==
    Compiled =>
        /\ \A i, j \in 1..Len(out) :
              (out[i].kind = "dir" /\ out[j].kind = "file") => i < j
        /\ \A i \in 1..Len(out) :
              (out[i].kind = "dir" /\ Below(Dir(out[i].path), Clean(bin.mountPath)))
                 => DirStmtBefore(Dir(out[i].path), i)
        /\ \A i \in 1..Len(out) :
              out[i].kind = "file" =>
                 \A a \in Ancestors(out[i].path) :
                    Below(a, Clean(bin.mountPath)) => DirStmtBefore(a, i)

\* The source holds a directory nested in a directory, a file inside it, and
\* a file at the root.
C9_Witness ==
    /\ Compiled
    /\ \E i, j, k \in 1..Len(out) :
          /\ out[i].kind = "dir"
          /\ Below(Dir(out[i].path), Clean(bin.mountPath))
          /\ out[j].kind = "file"
          /\ Dir(out[j].path) = out[i].path
          /\ out[k].kind = "dir"
          /\ out[k].path # out[i].path
          /\ k > i

\* The generated source has an add-file statement for the physical file q.
Emitted(q) == \E i \in 1..Len(out) : out[i].kind = "file" /\ out[i].path = VPath(q)

\* A directory strictly below the physical root, on the path of q, matches
\* an exclusion rule.
DirBelowRootMatches(q) ==
    \E d \in Ancestors(q) :
        Below(d, Clean(bin.physicalPath)) /\ Match(bin.skipList, Base(d))

\* C10 as stated: a physical file is in the output if and only if neither
\* its base name nor the base name of a directory on its path below the walk
\* root matches a rule.
C10_Original ==
    Compiled =>
        \A q \in PhysEntries :
            ~phys[q].dir =>
               (Emitted(q) <=> (~Match(bin.skipList, Base(q)) /\ ~DirBelowRootMatches(q)))

\* C10: a physical file is in the output if and only if neither its base
\* name nor the base name of a directory on its path, from the walk root
\* itself downwards, matches a rule.
C10_Exclusion ==
    Compiled =>
        \A q \in PhysEntries :
            ~phys[q].dir =>
               (Emitted(q) <=>
                   /\ ~Match(bin.skipList, Base(q))
                   /\ ~DirBelowRootMatches(q)
                   /\ ~Match(bin.skipList, Base(bin.physicalPath)))

\* A compilation kept one file, dropped a file for its own name and dropped
\* a file for the name of its directory.
C10_Witness ==
    /\ Compiled
    /\ \E q \in PhysEntries : ~phys[q].dir /\ Emitted(q)
    /\ \E q \in PhysEntries :
          ~phys[q].dir /\ ~Emitted(q) /\ Match(bin.skipList, Base(q))
    /\ \E q \in PhysEntries :
          ~phys[q].dir /\ ~Emitted(q) /\ ~Match(bin.skipList, Base(q))
             /\ DirBelowRootMatches(q)

\* Binary has returned, with output or with an error.
Returned == pc >= 1

\* The walk of Binary skips the physical entry q: its base name, or that of
\* a directory on its path from the walk root downwards, matches a rule.
Excluded(q) ==
    \/ Match(bin.skipList, Base(q))
    \/ DirBelowRootMatches(q)
    \/ Match(bin.skipList, Base(bin.physicalPath))

\* C11: when a step of Binary fails, the call returns an error and no output
\* at all, whatever was written to the buffer before; a rejected exclusion
\* list is reported before the preamble is rendered and before any entry is
\* walked or opened; a failing preamble is reported before the walk; and a
\* call that returns output met no failing walk entry, open, conversion or
\* formatting.
C11_FailFast ==
    Returned =>
        /\ bin.err # NoErr => out = <<>>
        /\ ~bin.skipList.valid =>
              /\ bin.err = Err("validate", "invalid")
              /\ bin.run.walked = <<>>
              /\ bin.run.opened = {}
        /\ (bin.skipList.valid /\ Fault("preamble", <<>>) \in bin.faults) =>
              /\ bin.err = Err("template", "vfs_binary")
              /\ bin.run.walked = <<>>
        /\ Fault("format", <<>>) \in bin.faults => bin.err # NoErr
        /\ bin.err = NoErr =>
              /\ \A i \in 1..Len(bin.run.walked) :
                    Fault("walk", bin.run.walked[i]) \notin bin.faults
              /\ \A q \in PhysEntries :
                    (~phys[q].dir /\ ~Excluded(q)) =>
                       /\ Fault("open", q) \notin bin.faults
                       /\ phys[q].data # <<>> => Fault("convert", q) \notin bin.faults

\* A call failed after statements were written to the buffer and files were
\* opened, and returned no output.
C11_Witness ==
    /\ Returned
    /\ bin.err # NoErr
    /\ bin.run.buf # <<>>
    /\ bin.run.opened # {}
    /\ out = <<>>

\* The add-file statements of the generated source.
FileStmts == SelectSeq(out, LAMBDA st : st.kind = "file")

\* C12: the add-file statements of the generated source are sorted by
\* virtual path, and every run of Binary over the same physical tree, mount
\* path and exclusion rules returns the same source.
C12_ReproducibleOutput ==
    Compiled =>
        /\ \A i, j \in 1..Len(FileStmts) :
              i < j => StrLess(FileStmts[i].path, FileStmts[j].path)
        /\ \A r \in Binary(phys, bin.mountPath, bin.physicalPath, bin.skipList, bin.faults) :
              r.err = NoErr => r.out = out

\* The number of statements of a kind for the virtual path p.
StmtCount(kind, p) ==
    Cardinality({i \in 1..Len(out) : out[i].kind = kind /\ out[i].path = p})

\* C15: the generated source holds exactly one add-directory statement for
\* each directory below the physical root that is not excluded, exactly one
\* add-file statement for each file that is not excluded, no statement for
\* an excluded entry, and no add-directory statement for the physical root,
\* whatever the form of the mount path.
C15_StatementCardinality ==
    Compiled =>
        /\ \A q \in PhysEntries :
              StmtCount(IF phys[q].dir THEN "dir" ELSE "file", VPath(q))
                 = IF Excluded(q) THEN 0 ELSE 1
        /\ StmtCount("dir", VPath(Clean(bin.physicalPath))) = 0
        /\ Len(out) = Cardinality({q \in PhysEntries : ~Excluded(q)})

\* C20: when Binary has returned, every file it opened has been closed.
C20_HandleHygiene ==
    Returned => bin.run.opened \subseteq bin.run.closed

====
